---- MODULE Spec2Model ----
(***************************************************************************)
(* Model of the sentence field parser of go-nmea (parser.go).              *)
(*                                                                         *)
(* A Go string is modelled as the sequence of its bytes (naturals below    *)
(* 256), so len(s) is Len(s), s == "" is s = <<>>, and ranging over a      *)
(* string decodes UTF-8 as the Go runtime does.  An int64 is modelled as a *)
(* sign and a decimal magnitude (a sequence of digits without leading      *)
(* zeros), which keeps the full 64 bit range of strconv.ParseInt.          *)
(***************************************************************************)
EXTENDS Integers, Sequences, FiniteSets, TLC

\* Type, Fields: the BaseSentence of the parser; err: p.err; call: the last
\* method called and its arguments; ret: what it returned; entry: p.err when
\* it was called; bits: the bit sequence the payload was armoured from
VARIABLES Type, Fields, err, call, ret, entry, bits

vars == <<Type, Fields, err, call, ret, entry, bits>>

----------------------------------------------------------------------------
(* Bounds of the model *)

MaxFields == 2

MaxFieldLen == 3

MaxPayload == 2

MaxChars == 2

----------------------------------------------------------------------------
(* Values *)

\* the nil error
NoErr == [nil |-> TRUE]

\* fmt.Errorf("nmea: %s invalid %s: %s", p.Prefix(), context, value); the
\* prefix is fixed for a sentence, the value is a literal of the parser (lit)
\* or the content of a field (str)
Errorf(context, lit, str) == [context |-> context, lit |-> lit, str |-> str]

StrRet(s) == [kind |-> "string", str |-> s]

ListRet(l) == [kind |-> "list", list |-> l]

IntRet(n) == [kind |-> "int64", int |-> n]

FloatRet(f) == [kind |-> "float64", float |-> f]

TimeRet(t) == [kind |-> "Time", time |-> t]

DateRet(d) == [kind |-> "Date", date |-> d]

\* a []byte result: the nil slice, or a slice of bits
BytesRet(isNil, b) == [kind |-> "bytes", isNil |-> isNil, bits |-> b]

NoRet == [kind |-> "none"]

\* int64 values: sign and decimal magnitude, zero is the empty magnitude
IntVal(neg, mag) == [neg |-> neg /\ mag # <<>>, mag |-> mag]

IntZero == IntVal(FALSE, <<>>)

Result(r, e) == [ret |-> r, err |-> e]

----------------------------------------------------------------------------
(* parser.SetErr and parser.String, as functions of the latched error e *)

\* SetErr without the test of p.err: the last error wins
SetErrOverwrite(e, context, lit, str) == Errorf(context, lit, str)

SetErr(e, context, lit, str) ==
    IF e = NoErr THEN Errorf(context, lit, str) ELSE e

\* String without the test of p.err on entry
StringUnlatched(e, i, context) ==
    IF i < 0 \/ i >= Len(Fields)
    THEN Result(<<>>, SetErr(e, context, "index out of range", <<>>))
    ELSE Result(Fields[i + 1], e)

String(e, i, context) ==
    IF e # NoErr THEN Result(<<>>, e)
    ELSE IF i < 0 \/ i >= Len(Fields)
         THEN Result(<<>>, SetErr(e, context, "index out of range", <<>>))
         ELSE Result(Fields[i + 1], e)

\* ListString with from > len(p.Fields) for the upper bound
ListStringInclusive(e, from, context) ==
    IF e # NoErr THEN Result(<<>>, e)
    ELSE IF from < 0 \/ from > Len(Fields)
         THEN Result(<<>>, SetErr(e, context, "index out of range", <<>>))
         ELSE Result(SubSeq(Fields, from + 1, Len(Fields)), e)

ListString(e, from, context) ==
    IF e # NoErr THEN Result(<<>>, e)
    ELSE IF from < 0 \/ from >= Len(Fields)
         THEN Result(<<>>, SetErr(e, context, "index out of range", <<>>))
         ELSE Result(SubSeq(Fields, from + 1, Len(Fields)), e)

AssertType(e, typ) ==
    IF Type # typ THEN SetErr(e, "type", Type, <<>>) ELSE e

EnumString(e, i, context, options) ==
    LET s == String(e, i, context) IN
    IF s.err # NoErr \/ s.ret = <<>> THEN Result(<<>>, s.err)
    ELSE IF \E k \in 1..Len(options) : options[k] = s.ret
         THEN Result(s.ret, s.err)
         ELSE Result(<<>>, SetErr(s.err, context, "", s.ret))

----------------------------------------------------------------------------
(* parser.EnumChars: `for _, r := range s` decodes UTF-8, len(s) counts bytes *)

RuneError == 65533

\* one step of `range s` at byte k: the rune and its width in bytes (one and
\* two byte encodings; any other byte decodes to RuneError of width 1)
DecodeRune(s, k) ==
    LET b == s[k] IN
    IF b < 128 THEN [r |-> b, w |-> 1]
    ELSE IF b \in 194..223 /\ k + 1 <= Len(s) /\ s[k + 1] \in 128..191
         THEN [r |-> (b - 192) * 64 + (s[k + 1] - 128), w |-> 2]
         ELSE [r |-> RuneError, w |-> 1]

\* string(r)
RuneString(r) ==
    IF r < 128 THEN <<r>>
    ELSE IF r < 2048 THEN <<192 + (r \div 64), 128 + (r % 64)>>
         ELSE <<239, 191, 189>>

\* the inner loop over the options: the first option equal to rs, appended
MatchOption(strs, options, rs) ==
    IF \E k \in 1..Len(options) : options[k] = rs
    THEN LET k == CHOOSE k \in 1..Len(options) :
                    /\ options[k] = rs
                    /\ \A j \in 1..(k - 1) : options[j] # rs
         IN Append(strs, options[k])
    ELSE strs

RECURSIVE EnumCharsLoop(_, _, _, _)
EnumCharsLoop(s, k, options, strs) ==
    IF k > Len(s) THEN strs
    ELSE LET d == DecodeRune(s, k) IN
         EnumCharsLoop(s, k + d.w, options,
                       MatchOption(strs, options, RuneString(d.r)))

EnumChars(e, i, context, options) ==
    LET s == String(e, i, context) IN
    IF s.err # NoErr \/ s.ret = <<>> THEN Result(<<>>, s.err)
    ELSE LET strs == EnumCharsLoop(s.ret, 1, options, <<>>) IN
         IF Len(strs) # Len(s.ret)
         THEN Result(<<>>, SetErr(s.err, context, "", s.ret))
         ELSE Result(strs, s.err)

----------------------------------------------------------------------------
(* parser.Int64 and strconv.ParseInt(s, 10, 64) *)

\* n < m for decimal magnitudes
NatLess(n, m) ==
    \/ Len(n) < Len(m)
    \/ /\ Len(n) = Len(m)
       /\ \E k \in 1..Len(n) : /\ n[k] < m[k]
                               /\ \A j \in 1..(k - 1) : n[j] = m[j]

\* n*10 + d
MulAdd10(n, d) == IF n = <<>> THEN (IF d = 0 THEN <<>> ELSE <<d>>) ELSE Append(n, d)

\* 1<<64 - 1
MaxUint64 == <<1,8,4,4,6,7,4,4,0,7,3,7,0,9,5,5,1,6,1,5>>

\* 1<<63, the cutoff of ParseInt for bitSize 64
Cutoff64 == <<9,2,2,3,3,7,2,0,3,6,8,5,4,7,7,5,8,0,8>>

\* 1<<63 - 1
MaxInt64 == <<9,2,2,3,3,7,2,0,3,6,8,5,4,7,7,5,8,0,7>>

\* strconv.ParseUint(s, 10, 64) from byte k on with n accumulated: a byte that
\* is not a digit of the base is a syntax error, an overflow of 64 bits is a
\* range error reported where it happens
RECURSIVE ParseUintLoop(_, _, _)
ParseUintLoop(s, k, n) ==
    IF k > Len(s) THEN [n |-> n, err |-> "nil"]
    ELSE IF s[k] \notin 48..57 THEN [n |-> <<>>, err |-> "syntax"]
    ELSE LET n1 == MulAdd10(n, s[k] - 48) IN
         IF NatLess(MaxUint64, n1) THEN [n |-> MaxUint64, err |-> "range"]
         ELSE ParseUintLoop(s, k + 1, n1)

ParseUint(s) ==
    IF s = <<>> THEN [n |-> <<>>, err |-> "syntax"] ELSE ParseUintLoop(s, 1, <<>>)

\* strconv.ParseInt(s, 10, 64): the value and the error
ParseInt(s) ==
    IF s = <<>> THEN [v |-> IntZero, err |-> "syntax"]
    ELSE LET neg == s[1] = 45
             s1  == IF s[1] = 43 \/ s[1] = 45 THEN Tail(s) ELSE s
             un  == ParseUint(s1)
         IN IF un.err = "syntax" THEN [v |-> IntZero, err |-> "syntax"]
            ELSE IF ~neg /\ ~NatLess(un.n, Cutoff64)
                 THEN [v |-> IntVal(FALSE, MaxInt64), err |-> "range"]
            ELSE IF neg /\ NatLess(Cutoff64, un.n)
                 THEN [v |-> IntVal(TRUE, Cutoff64), err |-> "range"]
            ELSE [v |-> IntVal(neg, un.n), err |-> "nil"]

\* Int64 without the test of the empty string
Int64NoEmpty(e, i, context) ==
    LET s == String(e, i, context) IN
    IF s.err # NoErr THEN Result(IntZero, s.err)
    ELSE LET p == ParseInt(s.ret) IN
         Result(p.v, IF p.err # "nil" THEN SetErr(s.err, context, "", s.ret)
                     ELSE s.err)

\* Int64 with `return 0` after SetErr
Int64ZeroOnError(e, i, context) ==
    LET s == String(e, i, context) IN
    IF s.err # NoErr THEN Result(IntZero, s.err)
    ELSE IF s.ret = <<>> THEN Result(IntZero, s.err)
    ELSE LET p == ParseInt(s.ret) IN
         IF p.err # "nil" THEN Result(IntZero, SetErr(s.err, context, "", s.ret))
         ELSE Result(p.v, s.err)

Int64(e, i, context) ==
    LET s == String(e, i, context) IN
    IF s.err # NoErr THEN Result(IntZero, s.err)
    ELSE IF s.ret = <<>> THEN Result(IntZero, s.err)
    ELSE LET p == ParseInt(s.ret) IN
         Result(p.v, IF p.err # "nil" THEN SetErr(s.err, context, "", s.ret)
                     ELSE s.err)

----------------------------------------------------------------------------
(* Getters over parsers that are not part of parser.go: strconv.ParseFloat,  *)
(* ParseTime, ParseDate and ParseLatLong return a value and an error or nil. *)
(* Every outcome is possible here; the getters only forward it.              *)

FloatValues == {"0", "f"}

TimeValues == {"Time{}", "t"}

DateValues == {"Date{}", "d"}

ParseFloat(s) == [v : FloatValues, ok : BOOLEAN]

\* an empty literal is marked invalid by the parser, it is not an error
ParseTime(s) == [v : TimeValues, ok : IF s = <<>> THEN {TRUE} ELSE BOOLEAN]

ParseDate(s) == [v : DateValues, ok : IF s = <<>> THEN {TRUE} ELSE BOOLEAN]

ParseLatLong(s) == [v : FloatValues, ok : BOOLEAN]

\* the set of the possible results of each getter
Float64(e, i, context) ==
    LET s == String(e, i, context) IN
    IF s.err # NoErr THEN {Result("0", s.err)}
    ELSE IF s.ret = <<>> THEN {Result("0", s.err)}
    ELSE {Result(p.v, IF ~p.ok THEN SetErr(s.err, context, "", s.ret) ELSE s.err)
            : p \in ParseFloat(s.ret)}

Time(e, i, context) ==
    LET s == String(e, i, context) IN
    IF s.err # NoErr THEN {Result("Time{}", s.err)}
    ELSE {Result(p.v, IF ~p.ok THEN SetErr(s.err, context, "", s.ret) ELSE s.err)
            : p \in ParseTime(s.ret)}

Date(e, i, context) ==
    LET s == String(e, i, context) IN
    IF s.err # NoErr THEN {Result("Date{}", s.err)}
    ELSE {Result(p.v, IF ~p.ok THEN SetErr(s.err, context, "", s.ret) ELSE s.err)
            : p \in ParseDate(s.ret)}

\* fmt.Sprintf("%s %s", a, b)
Sprintf2(a, b) == a \o <<32>> \o b

LatLong(e, i, j, context) ==
    LET a == String(e, i, context)
        b == String(a.err, j, context)
    IN IF b.err # NoErr THEN {Result("0", b.err)}
       ELSE {Result(p.v, IF ~p.ok THEN SetErr(b.err, context, "err.Error()", <<>>)
                         ELSE b.err)
               : p \in ParseLatLong(Sprintf2(a.ret, b.ret))}

----------------------------------------------------------------------------
(* parser.SixBitASCIIArmour *)

\* make([]byte, numBits)
MakeBytes(n) == [k \in 1..n |-> 0]

\* (d >> i) & 1
Bit(d, i) == (d \div (2 ^ i)) % 2

\* the mapping with `d >= 40` for the test
ArmourValueFrom88(v) == LET d == v - 48 IN IF d >= 40 THEN d - 8 ELSE d

\* the mapping without the gap of the alphabet
ArmourValueNoGap(v) == v - 48

\* d := v - 48; if d > 40 { d -= 8 }
ArmourValue(v) == LET d == v - 48 IN IF d > 40 THEN d - 8 ELSE d

\* the loop with the least significant bit first
RECURSIVE EmitBitsLSBFirst(_, _, _, _)
EmitBitsLSBFirst(d, i, result, resultIndex) ==
    IF i >= 0 /\ resultIndex < Len(result)
    THEN EmitBitsLSBFirst(d, i - 1, [result EXCEPT ![resultIndex + 1] = Bit(d, 5 - i)],
                          resultIndex + 1)
    ELSE [result |-> result, resultIndex |-> resultIndex]

\* for i := 5; i >= 0 && resultIndex < len(result); i-- : the state of
\* result and resultIndex after the loop
RECURSIVE EmitBits(_, _, _, _)
EmitBits(d, i, result, resultIndex) ==
    IF i >= 0 /\ resultIndex < Len(result)
    THEN EmitBits(d, i - 1, [result EXCEPT ![resultIndex + 1] = Bit(d, i)],
                  resultIndex + 1)
    ELSE [result |-> result, resultIndex |-> resultIndex]

\* the loop with `continue` for a byte outside the alphabet
RECURSIVE ArmourLoopSkip(_, _, _, _)
ArmourLoopSkip(payload, k, result, resultIndex) ==
    IF k > Len(payload) THEN [ok |-> TRUE, result |-> result]
    ELSE IF payload[k] < 48 \/ payload[k] >= 120
         THEN ArmourLoopSkip(payload, k + 1, result, resultIndex)
         ELSE LET st == EmitBits(ArmourValue(payload[k]), 5, result, resultIndex)
              IN ArmourLoopSkip(payload, k + 1, st.result, st.resultIndex)

\* for _, v := range payload, from byte k on
RECURSIVE ArmourLoop(_, _, _, _)
ArmourLoop(payload, k, result, resultIndex) ==
    IF k > Len(payload) THEN [ok |-> TRUE, result |-> result]
    ELSE IF payload[k] < 48 \/ payload[k] >= 120
         THEN [ok |-> FALSE, result |-> <<>>]
         ELSE LET st == EmitBits(ArmourValue(payload[k]), 5, result, resultIndex)
              IN ArmourLoop(payload, k + 1, st.result, st.resultIndex)

\* the result is BytesRet(isNil, bits)
SixBitASCIIArmour(e, i, fillBits, context) ==
    IF e # NoErr THEN Result(BytesRet(TRUE, <<>>), e)
    ELSE IF fillBits < 0 \/ fillBits >= 6
    THEN Result(BytesRet(TRUE, <<>>), SetErr(e, context, "fill bits", <<>>))
    ELSE LET s       == String(e, i, "encoded payload")
             payload == s.ret
             numBits == Len(payload) * 6 - fillBits
         IN IF numBits < 0
            THEN Result(BytesRet(TRUE, <<>>), SetErr(s.err, context, "num bits", <<>>))
            ELSE LET l == ArmourLoop(payload, 1, MakeBytes(numBits), 0) IN
                 IF ~l.ok
                 THEN Result(BytesRet(TRUE, <<>>),
                             SetErr(s.err, context, "data byte", <<>>))
                 ELSE Result(BytesRet(FALSE, l.result), s.err)

----------------------------------------------------------------------------
(* Inputs *)

BoundedSeqs(S, n) == UNION {[1..k -> S] : k \in 0..n}

Types == {"GGA", "RMC"}

Contexts == {"time", "mode"}

FillBits == -1..6

\* "", "A", "12x"
FieldStrings == {<<>>, <<65>>, <<49, 50, 120>>}

\* options of the enum getters: "A","B" / "B","A","B","e-acute"
OptionLists == {<< <<65>>, <<66>> >>, << <<66>>, <<65>>, <<66>>, <<195, 169>> >>}

\* the bytes of the fields of the enum getters: A, B, X and the two bytes of e-acute
EnumBytes == {65, 66, 88, 195, 169}

\* the bytes of the fields of Int64: + - 0 1 9 x
IntBytes == {43, 45, 48, 49, 57, 120}

\* 9223372036854775807, 9223372036854775808, 18446744073709551616
BigDigits ==
    { <<57,50,50,51,51,55,50,48,51,54,56,53,52,55,55,53,56,48,55>>,
      <<57,50,50,51,51,55,50,48,51,54,56,53,52,55,55,53,56,48,56>>,
      <<57,50,50,51,51,55,50,48,51,54,56,53,52,55,55,53,56,48,57>>,
      <<49,56,52,52,54,55,52,52,48,55,51,55,48,57,53,53,49,54,49,54>> }

\* the same with a sign, with leading zeros and followed by x
BigLiterals ==
    UNION { {d, <<45>> \o d, <<43>> \o d, <<48, 48>> \o d, d \o <<120>>,
             <<45>> \o d \o <<120>>} : d \in BigDigits }

IntStrings == BoundedSeqs(IntBytes, MaxFieldLen) \cup BigLiterals

EnumStrings == BoundedSeqs(EnumBytes, MaxFieldLen)

\* payload bytes around the limits of the armour alphabet
EdgeCodes == {47, 48, 49, 87, 88, 89, 96, 119, 120}

Payloads == BoundedSeqs(47..120, 1) \cup BoundedSeqs(EdgeCodes, MaxPayload)

NoCall == [op |-> "newParser", i |-> 0, j |-> 0, context |-> "", typ |-> "",
           options |-> <<>>, fillBits |-> 0]

CallOf(op, i, j, context, typ, options, fillBits) ==
    [op |-> op, i |-> i, j |-> j, context |-> context, typ |-> typ,
     options |-> options, fillBits |-> fillBits]

----------------------------------------------------------------------------
(* newParser: the state after construction, for the sentences of each       *)
(* specification                                                            *)

newParser(s) ==
    /\ Type = s.Type
    /\ Fields = s.Fields
    /\ err = NoErr
    /\ call = NoCall
    /\ ret = NoRet
    /\ entry = NoErr

Init ==
    /\ \E f \in BoundedSeqs(FieldStrings, MaxFields) :
          newParser([Type |-> "GGA", Fields |-> f])
    /\ bits = <<>>

InitEnum ==
    /\ \E s \in EnumStrings : newParser([Type |-> "GGA", Fields |-> <<s>>])
    /\ bits = <<>>

InitInt ==
    /\ \E s \in IntStrings : newParser([Type |-> "GGA", Fields |-> <<s>>])
    /\ bits = <<>>

InitArmour ==
    /\ \E s \in Payloads : newParser([Type |-> "VDM", Fields |-> <<s>>])
    /\ bits = <<>>

----------------------------------------------------------------------------
(* One action for each method of the parser *)

Return(c, r, e) ==
    /\ entry' = err
    /\ call' = c
    /\ ret' = r
    /\ err' = e
    /\ UNCHANGED <<Type, Fields, bits>>

CallAssertType(typ) ==
    Return(CallOf("AssertType", 0, 0, "", typ, <<>>, 0), NoRet, AssertType(err, typ))

CallSetErr(context, value) ==
    Return(CallOf("SetErr", 0, 0, context, value, <<>>, 0), NoRet,
           SetErr(err, context, value, <<>>))

CallString(i, context) ==
    LET r == String(err, i, context) IN
    Return(CallOf("String", i, 0, context, "", <<>>, 0), StrRet(r.ret), r.err)

CallListString(from, context) ==
    LET r == ListString(err, from, context) IN
    Return(CallOf("ListString", from, 0, context, "", <<>>, 0), ListRet(r.ret), r.err)

CallEnumString(i, context, options) ==
    LET r == EnumString(err, i, context, options) IN
    Return(CallOf("EnumString", i, 0, context, "", options, 0), StrRet(r.ret), r.err)

CallEnumChars(i, context, options) ==
    LET r == EnumChars(err, i, context, options) IN
    Return(CallOf("EnumChars", i, 0, context, "", options, 0), ListRet(r.ret), r.err)

CallInt64(i, context) ==
    LET r == Int64(err, i, context) IN
    Return(CallOf("Int64", i, 0, context, "", <<>>, 0), IntRet(r.ret), r.err)

CallFloat64(i, context) ==
    \E r \in Float64(err, i, context) :
        Return(CallOf("Float64", i, 0, context, "", <<>>, 0), FloatRet(r.ret), r.err)

CallTime(i, context) ==
    \E r \in Time(err, i, context) :
        Return(CallOf("Time", i, 0, context, "", <<>>, 0), TimeRet(r.ret), r.err)

CallDate(i, context) ==
    \E r \in Date(err, i, context) :
        Return(CallOf("Date", i, 0, context, "", <<>>, 0), DateRet(r.ret), r.err)

CallLatLong(i, j, context) ==
    \E r \in LatLong(err, i, j, context) :
        Return(CallOf("LatLong", i, j, context, "", <<>>, 0), FloatRet(r.ret), r.err)

CallSixBitASCIIArmour(i, fillBits, context) ==
    LET r == SixBitASCIIArmour(err, i, fillBits, context) IN
    Return(CallOf("SixBitASCIIArmour", i, 0, context, "", <<>>, fillBits), r.ret, r.err)

----------------------------------------------------------------------------
(* The specifications *)

Indices == -1..MaxFields

Next ==
    \/ \E typ \in Types : CallAssertType(typ)
    \/ \E c \in Contexts : CallSetErr(c, "value")
    \/ \E i \in Indices, c \in Contexts : CallString(i, c)
    \/ \E i \in Indices, c \in Contexts : CallListString(i, c)
    \/ \E i \in Indices, c \in Contexts, o \in OptionLists : CallEnumString(i, c, o)
    \/ \E i \in Indices, c \in Contexts, o \in OptionLists : CallEnumChars(i, c, o)
    \/ \E i \in Indices, c \in Contexts : CallInt64(i, c)
    \/ \E i \in Indices, c \in Contexts : CallFloat64(i, c)
    \/ \E i \in Indices, c \in Contexts : CallTime(i, c)
    \/ \E i \in Indices, c \in Contexts : CallDate(i, c)
    \/ \E i \in Indices, j \in Indices, c \in Contexts : CallLatLong(i, j, c)
    \/ \E i \in Indices, f \in {-1, 0, 5, 6}, c \in Contexts :
          CallSixBitASCIIArmour(i, f, c)

Spec == Init /\ [][Next]_vars

NextEnum ==
    \/ \E c \in Contexts : CallSetErr(c, "value")
    \/ \E i \in -1..1, c \in Contexts, o \in OptionLists : CallEnumChars(i, c, o)

SpecEnum == InitEnum /\ [][NextEnum]_vars

NextInt ==
    \/ \E c \in Contexts : CallSetErr(c, "value")
    \/ \E i \in -1..1, c \in Contexts : CallInt64(i, c)

SpecInt == InitInt /\ [][NextInt]_vars

NextArmour ==
    \/ \E c \in Contexts : CallSetErr(c, "value")
    \/ \E i \in -1..1, f \in FillBits, c \in Contexts : CallSixBitASCIIArmour(i, f, c)

SpecArmour == InitArmour /\ [][NextArmour]_vars

----------------------------------------------------------------------------
(* The 6 bit armour encoder of the sender, which produces the payloads of  *)
(* the round trip: b padded with zeros to n groups of six bits, each group *)
(* g sent as the character g + 48 when g < 40 and g + 56 otherwise         *)

Pad(b, n) == [k \in 1..(6 * n) |-> IF k <= Len(b) THEN b[k] ELSE 0]

Group(p, k) ==
    32 * p[6 * k - 5] + 16 * p[6 * k - 4] + 8 * p[6 * k - 3]
        + 4 * p[6 * k - 2] + 2 * p[6 * k - 1] + p[6 * k]

ArmourChar(g) == IF g < 40 THEN g + 48 ELSE g + 56

Encode(b, n) == [k \in 1..n |-> ArmourChar(Group(Pad(b, n), k))]

\* the values of the leading groups of the bit sequences that are sent
EdgeGroups == {0, 1, 31, 32, 39, 40, 41, 63}

\* the bit sequences that are sent: n - 1 leading groups and any 6 - f bits
\* after them, or no bit at all
SentBits ==
    {<<>>} \cup
    UNION { { [k \in 1..(6 * n - f) |->
                 IF k <= 6 * (n - 1)
                 THEN Bit(lead[((k - 1) \div 6) + 1], 5 - ((k - 1) % 6))
                 ELSE last[k - 6 * (n - 1)]]
              : lead \in [1..(n - 1) -> EdgeGroups], last \in [1..(6 - f) -> {0, 1}] }
            : n \in 1..MaxChars, f \in 0..5 }

InitRoundTrip ==
    \E b \in SentBits :
        /\ bits = b
        /\ newParser([Type |-> "VDM", Fields |-> <<Encode(b, (Len(b) + 5) \div 6)>>])

\* the receiver decodes field 0 with the fill bits of the sender
NextRoundTrip ==
    \E c \in Contexts :
        CallSixBitASCIIArmour(0, 6 * Len(Fields[1]) - Len(bits), c)

SpecRoundTrip == InitRoundTrip /\ [][NextRoundTrip]_vars

----------------------------------------------------------------------------
(* Properties *)

Getters == {"String", "ListString", "EnumString", "EnumChars", "Int64",
            "Float64", "Time", "Date", "LatLong", "SixBitASCIIArmour"}

ValidIndex(i) == i >= 0 /\ i < Len(Fields)

\* the last call was op, made with no error latched
Fresh(op) == call.op = op /\ entry = NoErr

\* the zero value of the result type of each getter
ZeroOf(op) ==
    CASE op \in {"String", "EnumString"} -> StrRet(<<>>)
      [] op \in {"ListString", "EnumChars"} -> ListRet(<<>>)
      [] op = "Int64" -> IntRet(IntZero)
      [] op \in {"Float64", "LatLong"} -> FloatRet("0")
      [] op = "Time" -> TimeRet("Time{}")
      [] op = "Date" -> DateRet("Date{}")
      [] op = "SixBitASCIIArmour" -> BytesRet(TRUE, <<>>)

\* C1: first error wins: no step of the parser changes or clears an error
\* that is latched, whatever the operation and its arguments
C1_FirstErrorWins == [][err # NoErr => err' = err]_vars

\* an operation that latches a different error when none is latched (a type
\* assertion that fails, SetErr with another context) has run on a latched
\* error and left it as it was
C1_Witness ==
    /\ entry # NoErr
    /\ err = entry
    /\ \/ call.op = "AssertType" /\ call.typ # Type /\ err.context # "type"
       \/ call.op = "SetErr" /\ call.context # err.context

\* C2: a getter called with an error latched returns the zero value of its
\* type and leaves the error as it was
C2_LatchedGetterIsNoOp ==
    (entry # NoErr /\ call.op \in Getters) => (ret = ZeroOf(call.op) /\ err = entry)

\* a decode of a valid payload, which yields six bits on a fresh parser,
\* was made with an error latched
C2_Witness ==
    /\ entry # NoErr
    /\ call.op = "SixBitASCIIArmour"
    /\ call.fillBits = 0
    /\ ValidIndex(call.i)
    /\ Fields[call.i + 1] = <<65>>
    /\ ret = BytesRet(TRUE, <<>>)

\* C3: with no error latched String(i) inside the bounds returns fields[i]
\* and ListString(from) the fields from `from` to the end in order, without
\* an error; outside the bounds both latch an error and return an empty result
C3_IndexedReads ==
    /\ Fresh("String") =>
          IF ValidIndex(call.i)
          THEN ret = StrRet(Fields[call.i + 1]) /\ err = NoErr
          ELSE ret = StrRet(<<>>) /\ err # NoErr
    /\ Fresh("ListString") =>
          IF ValidIndex(call.i)
          THEN /\ ret.kind = "list"
               /\ Len(ret.list) = Len(Fields) - call.i
               /\ \A k \in 1..Len(ret.list) : ret.list[k] = Fields[call.i + k]
               /\ err = NoErr
          ELSE ret = ListRet(<<>>) /\ err # NoErr

\* ListString(len(fields)) on a sentence with fields latched an error
C3_Witness ==
    /\ Fresh("ListString")
    /\ Len(Fields) > 0
    /\ call.i = Len(Fields)
    /\ err # NoErr

----------------------------------------------------------------------------

\* the characters of a string, each as a string
RECURSIVE CharsFrom(_, _)
CharsFrom(s, k) ==
    IF k > Len(s) THEN <<>>
    ELSE LET d == DecodeRune(s, k) IN
         <<RuneString(d.r)>> \o CharsFrom(s, k + d.w)

Chars(s) == CharsFrom(s, 1)

SingleCharacter(o) == Len(Chars(o)) = 1

\* C4: EnumChars on a non-empty field, no error latched: when every character
\* of the field is one of the single-character options the result is the
\* characters of the field in order and no error; otherwise an error with the
\* whole field as value and an empty result; an empty field gives an empty
\* result and no error
C4_EnumChars ==
    (/\ Fresh("EnumChars")
     /\ ValidIndex(call.i)
     /\ \A k \in 1..Len(call.options) : SingleCharacter(call.options[k]))
    => LET s == Fields[call.i + 1]
           c == Chars(s)
       IN IF s = <<>> THEN ret = ListRet(<<>>) /\ err = NoErr
          ELSE IF \A k \in 1..Len(c) : \E o \in 1..Len(call.options) :
                       call.options[o] = c[k]
               THEN ret = ListRet(c) /\ err = NoErr
               ELSE ret = ListRet(<<>>) /\ err = Errorf(call.context, "", s)

----------------------------------------------------------------------------

\* the digits of a decimal literal after its sign
Unsigned(s) == IF s # <<>> /\ s[1] \in {43, 45} THEN Tail(s) ELSE s

IsDecimal(s) == Unsigned(s) # <<>> /\ \A k \in 1..Len(Unsigned(s)) : Unsigned(s)[k] \in 48..57

\* the magnitude a decimal literal denotes: its digits without leading zeros
RECURSIVE Significant(_)
Significant(d) ==
    IF d = <<>> THEN <<>>
    ELSE IF d[1] = 48 THEN Significant(Tail(d))
    ELSE [k \in 1..Len(d) |-> d[k] - 48]

Magnitude(s) == Significant(Unsigned(s))

\* the literal denotes an integer of -(1<<63) .. (1<<63)-1
InInt64(s) ==
    IF s[1] = 45 THEN ~NatLess(Cutoff64, Magnitude(s))
    ELSE NatLess(Magnitude(s), Cutoff64)

\* the number a short magnitude denotes
RECURSIVE Number(_)
Number(m) == IF m = <<>> THEN 0 ELSE 10 * Number(SubSeq(m, 1, Len(m) - 1)) + m[Len(m)]

\* the number the digit characters of a short literal denote
RECURSIVE Denoted(_)
Denoted(u) ==
    IF u = <<>> THEN 0 ELSE 10 * Denoted(SubSeq(u, 1, Len(u) - 1)) + (u[Len(u)] - 48)

\* C5: Int64 at a valid index with no error latched: 0 and no error for an
\* empty field, the integer denoted and no error for a base 10 literal of a
\* signed 64 bit integer, an error whose value is the field for any other field
C5_Int64 ==
    (Fresh("Int64") /\ ValidIndex(call.i))
    => LET s == Fields[call.i + 1] IN
       IF s = <<>> THEN ret = IntRet(IntZero) /\ err = NoErr
       ELSE IF IsDecimal(s) /\ InInt64(s)
            THEN /\ err = NoErr
                 /\ ret.kind = "int64"
                 /\ ret.int.mag = Magnitude(s)
                 /\ ret.int.neg = (s[1] = 45 /\ Magnitude(s) # <<>>)
                 /\ Len(s) <= 9 => Number(ret.int.mag) = Denoted(Unsigned(s))
            ELSE err = Errorf(call.context, "", s)

\* Int64 returned -(1<<63), the least literal of the range, without an error
C5_Witness ==
    /\ Fresh("Int64")
    /\ ValidIndex(call.i)
    /\ Fields[call.i + 1] = <<45>> \o <<57,50,50,51,51,55,50,48,51,54,56,53,52,55,55,53,56,48,56>>
    /\ ret = IntRet(IntVal(TRUE, Cutoff64))
    /\ err = NoErr

\* C10 as stated: Int64 returns 0 on every call that ends with an error latched
C10_ZeroOnEveryError ==
    (call.op = "Int64" /\ err # NoErr) => ret = IntRet(IntZero)

\* the digits after the sign overflow: all of the field is digits and the
\* integer is outside the signed 64 bit range, or the leading digits are
\* above (1<<64)-1 already
Overflows(s) ==
    LET u == Unsigned(s) IN
    \/ IsDecimal(s) /\ ~InInt64(s)
    \/ \E n \in 1..Len(u) :
          /\ \A k \in 1..n : u[k] \in 48..57
          /\ NatLess(MaxUint64, Significant(SubSeq(u, 1, n)))

\* C10 (amended): Int64 returns 0 on every call that ends with an error
\* latched, but on the call that latches the error for a field whose digits
\* overflow, where it returns the bound of the range on the side of the sign
C10_ZeroUnlessOverflow ==
    (call.op = "Int64" /\ err # NoErr)
    => IF entry = NoErr /\ ValidIndex(call.i) /\ Overflows(Fields[call.i + 1])
       THEN ret = IntRet(IF Fields[call.i + 1][1] = 45 THEN IntVal(TRUE, Cutoff64)
                         ELSE IntVal(FALSE, MaxInt64))
       ELSE ret = IntRet(IntZero)

\* Int64 latched an error for 9223372036854775808 and returned (1<<63)-1
C10_Witness ==
    /\ Fresh("Int64")
    /\ ValidIndex(call.i)
    /\ Fields[call.i + 1] = <<57,50,50,51,51,55,50,48,51,54,56,53,52,55,55,53,56,48,56>>
    /\ err # NoErr
    /\ ret = IntRet(IntVal(FALSE, MaxInt64))

----------------------------------------------------------------------------

\* the field SixBitASCIIArmour decodes: the field at the index, or the empty
\* string of String outside the bounds
Payload == IF ValidIndex(call.i) THEN Fields[call.i + 1] ELSE <<>>

ValidFill == call.fillBits >= 0 /\ call.fillBits < 6

NumBits == Len(Payload) * 6 - call.fillBits

ValidCodes == \A k \in 1..Len(Payload) : Payload[k] >= 48 /\ Payload[k] < 120

\* the 6 bit value of a character: v - 48, less 8 when that is above 40
Mapped(v) == IF v - 48 > 40 THEN v - 48 - 8 ELSE v - 48

\* bit i of d, bit 0 the least significant
BitOf(d, i) == (d \div (2 ^ i)) % 2

\* C6: a decode with no error latched, a valid index, fillBits in [0, 6),
\* len(payload)*6 - fillBits >= 0 and every code in [48, 120) returns exactly
\* len(payload)*6 - fillBits elements, each 0 or 1, element k being bit
\* 5 - k mod 6 of the mapped value of character k div 6, and latches no error
C6_DecodeSuccess ==
    (/\ Fresh("SixBitASCIIArmour")
     /\ ValidIndex(call.i) /\ ValidFill /\ NumBits >= 0 /\ ValidCodes)
    => /\ err = NoErr
       /\ ret.kind = "bytes"
       /\ ~ret.isNil
       /\ Len(ret.bits) = NumBits
       /\ \A k \in 0..(NumBits - 1) :
             /\ ret.bits[k + 1] \in {0, 1}
             /\ ret.bits[k + 1] = BitOf(Mapped(Payload[(k \div 6) + 1]), 5 - (k % 6))

\* two characters were decoded to 7 bits, not all of them 0: the second
\* character gave its most significant bit only
C6_Witness ==
    /\ Fresh("SixBitASCIIArmour")
    /\ ValidIndex(call.i)
    /\ Len(Payload) = 2
    /\ call.fillBits = 5
    /\ err = NoErr
    /\ Len(ret.bits) = 7
    /\ ret.bits[7] = 1
    /\ ret.bits[6] = 0

\* C7: a decode with fillBits outside [0, 6), with len(payload)*6 - fillBits
\* below 0 or with a code below 48 or not below 120 anywhere in the payload
\* latches an error and returns no bits; no decode that ends with an error
\* returns bits
C7_DecodeAllOrNothing ==
    /\ (Fresh("SixBitASCIIArmour") /\ (~ValidFill \/ NumBits < 0 \/ ~ValidCodes))
          => (err # NoErr /\ ret = BytesRet(TRUE, <<>>))
    /\ (call.op = "SixBitASCIIArmour" /\ err # NoErr) => ret.bits = <<>>

\* a payload with a valid character before an invalid one was decoded
C7_Witness ==
    /\ Fresh("SixBitASCIIArmour")
    /\ ValidIndex(call.i) /\ ValidFill
    /\ Len(Payload) = 2
    /\ Payload[1] \in 48..119
    /\ Payload[2] = 120
    /\ err = Errorf(call.context, "data byte", <<>>)
    /\ ret = BytesRet(TRUE, <<>>)

\* the value of the six bits decoded from character k
Decoded(k) ==
    32 * ret.bits[6 * k - 5] + 16 * ret.bits[6 * k - 4] + 8 * ret.bits[6 * k - 3]
        + 4 * ret.bits[6 * k - 2] + 2 * ret.bits[6 * k - 1] + ret.bits[6 * k]

\* a decode of a payload of valid codes without fill bits
DecodedAll ==
    /\ Fresh("SixBitASCIIArmour")
    /\ ValidIndex(call.i) /\ call.fillBits = 0 /\ ValidCodes
    /\ ret.kind = "bytes" /\ Len(ret.bits) = 6 * Len(Payload)

\* C8 as stated: the value decoded for a code is code - 48 for the codes 48
\* to 87 and code - 48 - 8 for the codes 88 to 119, and lies in 0..63
C8_AlphabetFrom88 ==
    DecodedAll => \A k \in 1..Len(Payload) :
        /\ Decoded(k) = IF Payload[k] <= 87 THEN Payload[k] - 48 ELSE Payload[k] - 48 - 8
        /\ Decoded(k) \in 0..63

\* C8 (amended): the value decoded for a code is code - 48 for the codes 48
\* to 88 (0 to 40) and code - 48 - 8 for the codes 89 to 119 (33 to 63), and
\* lies in 0..63
C8_AlphabetFrom89 ==
    DecodedAll => \A k \in 1..Len(Payload) :
        /\ Decoded(k) = IF Payload[k] <= 88 THEN Payload[k] - 48 ELSE Payload[k] - 48 - 8
        /\ Decoded(k) \in 0..63

\* the codes 88 and 89 were decoded, to 40 and to 33
C8_Witness ==
    /\ DecodedAll
    /\ Payload = <<88, 89>>
    /\ Decoded(1) = 40
    /\ Decoded(2) = 33

\* C9: the decode of the payload the encoder makes of a bit sequence, with
\* the fill bits of the encoder, returns the bit sequence and latches no error
C9_RoundTrip ==
    (/\ Fresh("SixBitASCIIArmour")
     /\ call.i = 0
     /\ Fields = <<Encode(bits, (Len(bits) + 5) \div 6)>>
     /\ call.fillBits = 6 * ((Len(bits) + 5) \div 6) - Len(bits))
    => (ret = BytesRet(FALSE, bits) /\ err = NoErr)

\* 7 bits that end with a 1 came back from two characters, the first of
\* them of the upper half of the alphabet
C9_Witness ==
    /\ Fresh("SixBitASCIIArmour")
    /\ Len(bits) = 7
    /\ bits[7] = 1
    /\ Len(Fields[1]) = 2
    /\ Fields[1][1] >= 96
    /\ ret = BytesRet(FALSE, bits)

====
